---- MODULE Spec2Model ----
(***************************************************************************)
(* EventNFT: the EventTicketNFT registry (contracts/EventTicketNFT.sol)    *)
(* and the TicketMarketplace escrow engine                                 *)
(* (contracts/TicketMarketplace.sol) as one state machine.  Every external *)
(* function is one action, enabled exactly when none of its requires (its  *)
(* own, its modifiers' and those of the calls it makes) fails: a reverting *)
(* call changes no state, so it is no step.  X_require is the condition    *)
(* under which a call of X commits; `last` records the committed call.     *)
(***************************************************************************)
EXTENDS Integers, Sequences, FiniteSets, TLC

\* ---------------------------------------------------------------- bounds
MaxTokens == 1
MaxIndexTokens == 3
MaxNow == 604800
InitBalance == 1001

\* ------------------------------------------------------- program constants
CONFIRMATION_PERIOD == 604800
MAX_FEE == 1000
InitialFee == 250
FeeDenominator == 10000

\* ------------------------------------------------------------- identities
OWNER == "owner"
MARKET == "market"
NoOne == "none"
Users == {"owner", "alice", "bob"}
Minters == {"alice"}
Accounts == Users \cup {MARKET}
Tokens == 0 .. (MaxTokens - 1)
IndexTokens == 0 .. (MaxIndexTokens - 1)

\* inputs of the calls
Prices == {39, 1000}
ListPrices == Prices \cup {0}
Payments == Prices \cup {p + 1 : p \in Prices} \cup {p - 1 : p \in Prices}
FeeChoices == {1000, 1001}
TimeSteps == {CONFIRMATION_PERIOD - 1, CONFIRMATION_PERIOD}
Reasons == {"item not received"}
AdminCandidates == {"alice"}
MarketplaceCandidates == {MARKET, "bob"}
RejectingChoices == {{}, {"alice"}, {"bob"}, {"owner"}}

PENDING == "PENDING"
VERIFIED == "VERIFIED"
LOCKED == "LOCKED"
UNLOCKED == "UNLOCKED"
DISPUTED == "DISPUTED"
TicketStatus == {PENDING, VERIFIED, LOCKED, UNLOCKED, DISPUTED}

VARIABLES
    tokenIdCounter,         \* EventTicketNFT._tokenIdCounter
    owners,                 \* ERC721._owners: token -> owner, NoOne if not minted
    ticketInfo,             \* EventTicketNFT.ticketInfo (the status field)
    isLocked,               \* EventTicketNFT.isLocked
    authorizedMarketplace,  \* EventTicketNFT.authorizedMarketplace, as a set
    nftAdmins,              \* EventTicketNFT.admins, as a set
    nftPaused,              \* EventTicketNFT: Pausable._paused
    tokenApprovals,         \* ERC721._tokenApprovals: token -> approved, or NoOne
    marketplaceFee,         \* TicketMarketplace.marketplaceFee
    listings,               \* TicketMarketplace.listings
    escrowTransactions,     \* TicketMarketplace.escrowTransactions
    admins,                 \* TicketMarketplace.admins, as a set
    listedTokenIds,         \* TicketMarketplace.listedTokenIds
    escrowTokenIds,         \* TicketMarketplace.escrowTokenIds
    paused,                 \* TicketMarketplace: Pausable._paused
    balance,                \* ether balance of every account
    now,                    \* block.timestamp
    rejecting,              \* the accounts that do not accept ether sent to them
    _status,                \* TicketMarketplace: ReentrancyGuard._status
    pending,                \* the call whose payout is under way, or NoCall
    last,                   \* the most recent committed call
    emitted                 \* the events of the two contracts that call emitted

nftVars == <<tokenIdCounter, owners, ticketInfo, isLocked, authorizedMarketplace,
             nftAdmins, nftPaused, tokenApprovals>>
mktVars == <<marketplaceFee, listings, escrowTransactions, admins, listedTokenIds,
             escrowTokenIds, paused>>
coreVars == <<nftVars, mktVars, balance>>
payVars == <<rejecting, _status, pending>>
vars == <<nftVars, mktVars, balance, now, last, emitted, payVars>>

NoListing == [seller |-> NoOne, price |-> 0, active |-> FALSE]
NoEscrow == [seller |-> NoOne, buyer |-> NoOne, price |-> 0, startTime |-> 0,
             sellerConfirmed |-> FALSE, buyerConfirmed |-> FALSE,
             disputed |-> FALSE, completed |-> FALSE, disputeReason |-> ""]

NOT_ENTERED == "NOT_ENTERED"
ENTERED == "ENTERED"
NoCall == [op |-> "none", caller |-> NoOne, tokenId |-> 0, flag |-> FALSE,
           payee |-> NoOne]

\* a committed call of an admin function: target is its address argument
AdminCall(op, caller, target) ==
    [op |-> op, caller |-> caller, tokenId |-> 0, amount |-> 0, flag |-> FALSE,
     target |-> target]

Call(op, caller, tokenId, amount, flag) ==
    [op |-> op, caller |-> caller, tokenId |-> tokenId, amount |-> amount,
     flag |-> flag]

\* the events a call of the registry emits, in the order of its emit
\* statements (the events of the ERC721 and Pausable base contracts are left out)
verifyTicket_events == <<"TicketVerified", "TicketStatusChanged">>
lockTicket_events == <<"TicketLocked", "TicketStatusChanged">>
unlockTicket_events == <<"TicketUnlocked", "TicketStatusChanged">>
markAsDisputed_events == <<"TicketStatusChanged">>

\* _completeEscrow: unlockTicket, then EscrowCompleted
_completeEscrow_events == unlockTicket_events \o <<"EscrowCompleted">>

\* ------------------------------------------------------------------ Init
\* The state after scripts/deploy.js: both contracts deployed by OWNER, the
\* marketplace contract authorized in the registry.
Init ==
    /\ tokenIdCounter = 0
    /\ owners = [t \in Tokens |-> NoOne]
    /\ ticketInfo = [t \in Tokens |-> [status |-> PENDING]]
    /\ isLocked = [t \in Tokens |-> FALSE]
    /\ authorizedMarketplace = {MARKET}
    /\ nftAdmins = {OWNER}
    /\ nftPaused = FALSE
    /\ tokenApprovals = [t \in Tokens |-> NoOne]
    /\ marketplaceFee = InitialFee
    /\ listings = [t \in Tokens |-> NoListing]
    /\ escrowTransactions = [t \in Tokens |-> NoEscrow]
    /\ admins = {OWNER}
    /\ listedTokenIds = <<>>
    /\ escrowTokenIds = <<>>
    /\ paused = FALSE
    /\ balance = [a \in Accounts |-> IF a = MARKET THEN 0 ELSE InitBalance]
    /\ now = 0
    /\ rejecting = {}
    /\ _status = NOT_ENTERED
    /\ pending = NoCall
    /\ last = Call("deploy", OWNER, 0, 0, FALSE)
    /\ emitted = <<>>

\* --------------------------------------------------------------- registry
_exists(tokenId) == tokenId \in DOMAIN owners /\ owners[tokenId] # NoOne

totalSupply == tokenIdCounter

\* modifier onlyAdmin of the registry
nftOnlyAdmin(sender) == sender \in nftAdmins \/ sender = OWNER

\* mutant: the modifier lets every caller through
onlyMarketplace_mut(sender) == TRUE

\* modifier onlyMarketplace
onlyMarketplace(sender) == sender \in authorizedMarketplace

\* mutant: _beforeTokenTransfer without whenNotPaused
_transfer_require_mut(from, to, tokenId) ==
    /\ _exists(tokenId)
    /\ owners[tokenId] = from
    /\ to # NoOne

\* ERC721._transfer(from, to, tokenId) through _beforeTokenTransfer (whenNotPaused)
_transfer_require(from, to, tokenId) ==
    /\ _exists(tokenId)
    /\ owners[tokenId] = from
    /\ to # NoOne
    /\ ~nftPaused

_transfer(from, to, tokenId) ==
    /\ owners' = [owners EXCEPT ![tokenId] = to]
    /\ tokenApprovals' = [tokenApprovals EXCEPT ![tokenId] = NoOne]

\* mintTicket(to, ...): the next id, status PENDING
mintTicket_require(to) ==
    /\ to # NoOne
    /\ ~nftPaused

mintTicket(sender, to) ==
    LET tokenId == tokenIdCounter
    IN  /\ tokenIdCounter \in DOMAIN owners   \* bound on the number of mints
        /\ mintTicket_require(to)
        /\ tokenIdCounter' = tokenIdCounter + 1
        /\ owners' = [owners EXCEPT ![tokenId] = to]
        /\ ticketInfo' = [ticketInfo EXCEPT ![tokenId] = [status |-> PENDING]]
        /\ last' = Call("mintTicket", sender, tokenId, 0, FALSE)
        /\ emitted' = <<"TicketMinted">>
        /\ UNCHANGED <<isLocked, authorizedMarketplace, nftAdmins, nftPaused,
                       tokenApprovals,
                       mktVars, balance, now, payVars>>

\* mutant: the "not pending" require dropped
verifyTicket_require_mut(sender, tokenId) ==
    /\ nftOnlyAdmin(sender)
    /\ _exists(tokenId)

verifyTicket_require(sender, tokenId) ==
    /\ nftOnlyAdmin(sender)
    /\ _exists(tokenId)
    /\ ticketInfo[tokenId].status = PENDING

verifyTicket(sender, tokenId) ==
        /\ verifyTicket_require(sender, tokenId)
        /\ ticketInfo' = [ticketInfo EXCEPT ![tokenId].status = VERIFIED]
        /\ last' = Call("verifyTicket", sender, tokenId, 0, FALSE)
        /\ emitted' = verifyTicket_events
        /\ UNCHANGED <<tokenIdCounter, owners, isLocked, authorizedMarketplace,
                       nftAdmins, nftPaused, tokenApprovals, mktVars, balance, now, payVars>>

\* lockTicket, unlockTicket, markAsDisputed, marketplaceTransfer are the
\* calls the marketplace makes inside its own functions: the _require part is
\* what makes the enclosing call revert, the other part is the effect.
\* mutant: an Unlocked ticket can be locked again
lockTicket_require_mut(sender, tokenId) ==
    /\ onlyMarketplace(sender)
    /\ _exists(tokenId)
    /\ ticketInfo[tokenId].status \in {VERIFIED, UNLOCKED}

\* mutant: the "ticket not verified" require dropped
lockTicket_require_anyStatus(sender, tokenId) ==
    /\ onlyMarketplace(sender)
    /\ _exists(tokenId)

lockTicket_require(sender, tokenId) ==
    /\ onlyMarketplace(sender)
    /\ _exists(tokenId)
    /\ ticketInfo[tokenId].status = VERIFIED

\* mutant: the status set, the lock flag forgotten
lockTicket_mut(tokenId) ==
    /\ isLocked' = isLocked
    /\ ticketInfo' = [ticketInfo EXCEPT ![tokenId].status = LOCKED]

lockTicket(tokenId) ==
    /\ isLocked' = [isLocked EXCEPT ![tokenId] = TRUE]
    /\ ticketInfo' = [ticketInfo EXCEPT ![tokenId].status = LOCKED]

unlockTicket_require(sender, tokenId) ==
    /\ onlyMarketplace(sender)
    /\ _exists(tokenId)
    /\ isLocked[tokenId]

\* mutant: the status set, the lock flag left set
unlockTicket_mut(tokenId) ==
    /\ isLocked' = isLocked
    /\ ticketInfo' = [ticketInfo EXCEPT ![tokenId].status = UNLOCKED]

unlockTicket(tokenId) ==
    /\ isLocked' = [isLocked EXCEPT ![tokenId] = FALSE]
    /\ ticketInfo' = [ticketInfo EXCEPT ![tokenId].status = UNLOCKED]

markAsDisputed_require(sender, tokenId) ==
    /\ onlyMarketplace(sender)
    /\ _exists(tokenId)

markAsDisputed(tokenId) ==
    ticketInfo' = [ticketInfo EXCEPT ![tokenId].status = DISPUTED]

marketplaceTransfer_require(sender, from, to, tokenId) ==
    /\ onlyMarketplace(sender)
    /\ _transfer_require(from, to, tokenId)

\* ERC721._isApprovedOrOwner (approvals for all are not given)
_isApprovedOrOwner(spender, tokenId) ==
    /\ _exists(tokenId)
    /\ spender = owners[tokenId] \/ spender = tokenApprovals[tokenId]

\* transferFrom(from, to, tokenId): notLocked, then ERC721.transferFrom
transferFrom_require(sender, from, to, tokenId) ==
    /\ tokenId \in DOMAIN owners
    /\ ~isLocked[tokenId]
    /\ _isApprovedOrOwner(sender, tokenId)
    /\ _transfer_require(from, to, tokenId)

transferFrom(sender, from, to, tokenId) ==
        /\ transferFrom_require(sender, from, to, tokenId)
        /\ _transfer(from, to, tokenId)
        /\ last' = Call("transferFrom", sender, tokenId, 0, FALSE)
        /\ emitted' = <<>>
        /\ UNCHANGED <<tokenIdCounter, ticketInfo, isLocked, authorizedMarketplace,
                       nftAdmins, nftPaused, mktVars, balance, now, payVars>>

\* ERC721.approve(to, tokenId) by the owner of the token
approve_require(sender, to, tokenId) ==
    /\ _exists(tokenId)
    /\ to # owners[tokenId]
    /\ sender = owners[tokenId]

approve(sender, to, tokenId) ==
        /\ approve_require(sender, to, tokenId)
        /\ tokenApprovals' = [tokenApprovals EXCEPT ![tokenId] = to]
        /\ last' = Call("approve", sender, tokenId, 0, FALSE)
        /\ emitted' = <<>>
        /\ UNCHANGED <<tokenIdCounter, owners, ticketInfo, isLocked,
                       authorizedMarketplace, nftAdmins, nftPaused, mktVars,
                       balance, now, payVars>>

\* ERC721Burnable.burn(tokenId): no notLocked; _burn goes through
\* _beforeTokenTransfer (whenNotPaused) and leaves ticketInfo and isLocked
burn_require(sender, tokenId) ==
    /\ tokenId \in DOMAIN owners
    /\ _isApprovedOrOwner(sender, tokenId)
    /\ ~nftPaused

burn(sender, tokenId) ==
        /\ burn_require(sender, tokenId)
        /\ owners' = [owners EXCEPT ![tokenId] = NoOne]
        /\ tokenApprovals' = [tokenApprovals EXCEPT ![tokenId] = NoOne]
        /\ last' = Call("burn", sender, tokenId, 0, FALSE)
        /\ emitted' = <<>>
        /\ UNCHANGED <<tokenIdCounter, ticketInfo, isLocked, authorizedMarketplace,
                       nftAdmins, nftPaused, mktVars, balance, now, payVars>>

\* lockTicket, unlockTicket, markAsDisputed and marketplaceTransfer called on
\* the registry directly, as the authorized account of the registry tests does
lockTicketCall(sender, tokenId) ==
        /\ lockTicket_require(sender, tokenId)
        /\ lockTicket(tokenId)
        /\ last' = Call("lockTicket", sender, tokenId, 0, FALSE)
        /\ emitted' = lockTicket_events
        /\ UNCHANGED <<tokenIdCounter, owners, authorizedMarketplace, nftAdmins,
                       nftPaused, tokenApprovals, mktVars, balance, now, payVars>>

unlockTicketCall(sender, tokenId) ==
        /\ unlockTicket_require(sender, tokenId)
        /\ unlockTicket(tokenId)
        /\ last' = Call("unlockTicket", sender, tokenId, 0, FALSE)
        /\ emitted' = unlockTicket_events
        /\ UNCHANGED <<tokenIdCounter, owners, authorizedMarketplace, nftAdmins,
                       nftPaused, tokenApprovals, mktVars, balance, now, payVars>>

markAsDisputedCall(sender, tokenId) ==
        /\ markAsDisputed_require(sender, tokenId)
        /\ markAsDisputed(tokenId)
        /\ last' = Call("markAsDisputed", sender, tokenId, 0, FALSE)
        /\ emitted' = markAsDisputed_events
        /\ UNCHANGED <<tokenIdCounter, owners, isLocked, authorizedMarketplace,
                       nftAdmins, nftPaused, tokenApprovals, mktVars, balance, now, payVars>>

marketplaceTransfer(sender, from, to, tokenId) ==
        /\ marketplaceTransfer_require(sender, from, to, tokenId)
        /\ _transfer(from, to, tokenId)
        /\ last' = Call("marketplaceTransfer", sender, tokenId, 0, FALSE)
        /\ emitted' = <<>>
        /\ UNCHANGED <<tokenIdCounter, ticketInfo, isLocked, authorizedMarketplace,
                       nftAdmins, nftPaused, mktVars, balance, now, payVars>>

\* addAdmin, removeAdmin, authorizeMarketplace of the registry: onlyOwner
\* mutant: the admins pass as well
nftOnlyOwner_mut(sender) == sender \in nftAdmins \/ sender = OWNER

nftOnlyOwner(sender) == sender = OWNER

nftAddAdmin(sender, admin) ==
        /\ nftOnlyOwner(sender)
        /\ nftAdmins' = nftAdmins \cup {admin}
        /\ last' = AdminCall("addAdmin", sender, admin)
        /\ emitted' = <<"AdminAdded">>
        /\ UNCHANGED <<tokenIdCounter, owners, ticketInfo, isLocked,
                       authorizedMarketplace, nftPaused, tokenApprovals, mktVars,
                       balance, now, payVars>>

nftRemoveAdmin(sender, admin) ==
        /\ nftOnlyOwner(sender)
        /\ nftAdmins' = nftAdmins \ {admin}
        /\ last' = AdminCall("removeAdmin", sender, admin)
        /\ emitted' = <<"AdminRemoved">>
        /\ UNCHANGED <<tokenIdCounter, owners, ticketInfo, isLocked,
                       authorizedMarketplace, nftPaused, tokenApprovals, mktVars,
                       balance, now, payVars>>

authorizeMarketplace(sender, marketplace) ==
        /\ nftOnlyOwner(sender)
        /\ authorizedMarketplace' = authorizedMarketplace \cup {marketplace}
        /\ last' = AdminCall("authorizeMarketplace", sender, marketplace)
        /\ emitted' = <<"MarketplaceAuthorized">>
        /\ UNCHANGED <<tokenIdCounter, owners, ticketInfo, isLocked, nftAdmins,
                       nftPaused, tokenApprovals, mktVars, balance, now, payVars>>

\* pause / unpause of the registry: onlyOwner, Pausable._pause / _unpause
nftPause(sender) ==
        /\ nftOnlyOwner(sender)
        /\ ~nftPaused
        /\ nftPaused' = TRUE
        /\ last' = Call("pause", sender, 0, 0, FALSE)
        /\ emitted' = <<>>
        /\ UNCHANGED <<tokenIdCounter, owners, ticketInfo, isLocked,
                       authorizedMarketplace, nftAdmins, tokenApprovals, mktVars,
                       balance, now, payVars>>

nftUnpause(sender) ==
        /\ nftOnlyOwner(sender)
        /\ nftPaused
        /\ nftPaused' = FALSE
        /\ last' = Call("unpause", sender, 0, 0, FALSE)
        /\ emitted' = <<>>
        /\ UNCHANGED <<tokenIdCounter, owners, ticketInfo, isLocked,
                       authorizedMarketplace, nftAdmins, tokenApprovals, mktVars,
                       balance, now, payVars>>

\* ------------------------------------------------------------ marketplace
\* modifier onlyAdmin of the marketplace
onlyAdmin(sender) == sender \in admins \/ sender = OWNER

\* modifier validTokenId
validTokenId(tokenId) == tokenId < totalSupply

\* _isInEscrow
_isInEscrow(tokenId) ==
    escrowTransactions[tokenId].price > 0 /\ ~escrowTransactions[tokenId].completed

\* the loop of _removeFromListedTokens / _removeFromEscrowTokens: the first
\* index holding tokenId takes the last element, then the array is popped
FirstIndexOf(arr, tokenId) ==
    CHOOSE i \in 1 .. Len(arr) :
        /\ arr[i] = tokenId
        /\ \A j \in 1 .. (i - 1) : arr[j] # tokenId

\* mutant: the last element popped, the target not overwritten
SwapAndPop_mut(arr, tokenId) ==
    IF \E i \in 1 .. Len(arr) : arr[i] = tokenId
    THEN SubSeq(arr, 1, Len(arr) - 1)
    ELSE arr

SwapAndPop(arr, tokenId) ==
    IF \E i \in 1 .. Len(arr) : arr[i] = tokenId
    THEN LET i == FirstIndexOf(arr, tokenId)
             swapped == [arr EXCEPT ![i] = arr[Len(arr)]]
         IN  SubSeq(swapped, 1, Len(arr) - 1)
    ELSE arr

\* mutant: the id stays in the array
_removeFromListedTokens_mut(tokenId) == listedTokenIds' = listedTokenIds

_removeFromListedTokens(tokenId) ==
    listedTokenIds' = SwapAndPop(listedTokenIds, tokenId)

_removeFromEscrowTokens(tokenId) ==
    escrowTokenIds' = SwapAndPop(escrowTokenIds, tokenId)

\* getActiveListings, getActiveEscrows: the ids of the array whose record
\* is active / not completed, in the order of the array
getActiveListings ==
    SelectSeq(listedTokenIds, LAMBDA t : listings[t].active)

getActiveEscrows ==
    SelectSeq(escrowTokenIds, LAMBDA t : ~escrowTransactions[t].completed)

\* modifier nonReentrant (ReentrancyGuard)
\* mutant: the modifier lets a nested call through
nonReentrant_mut == TRUE

nonReentrant == _status = NOT_ENTERED

\* payable(to).transfer(amount) out of the marketplace: reverts when the
\* contract holds less than amount or the receiver does not accept it
\* mutant: the result of the send is ignored
transfer_require_mut(to, amount) == TRUE

transfer_require(to, amount) ==
    /\ balance[MARKET] >= amount
    /\ to \notin rejecting

transfer(to, amount) ==
    balance' = [balance EXCEPT ![MARKET] = @ - amount, ![to] = @ + amount]

\* _releaseFundsToSeller: fee and sellerAmount
\* mutant: the fee at the rate of the deployment, not the rate in force
fee_initialRate(price) == (price * InitialFee) \div FeeDenominator

\* mutant: the fee divided by 1000 instead of 10000
fee_mut(price) == (price * marketplaceFee) \div 1000

fee(price) == (price * marketplaceFee) \div FeeDenominator

sellerAmount(price) == price - fee(price)

_releaseFundsToSeller_require(tokenId) ==
    transfer_require(escrowTransactions[tokenId].seller,
                     sellerAmount(escrowTransactions[tokenId].price))

\* mutant: the whole price paid out, no fee kept
_releaseFundsToSeller_mut(tokenId) ==
    transfer(escrowTransactions[tokenId].seller, escrowTransactions[tokenId].price)

_releaseFundsToSeller(tokenId) ==
    transfer(escrowTransactions[tokenId].seller,
             sellerAmount(escrowTransactions[tokenId].price))

\* _refundBuyer
_refundBuyer_require(tokenId) ==
    transfer_require(escrowTransactions[tokenId].buyer, escrowTransactions[tokenId].price)

\* mutant: the fee withheld from the refund
_refundBuyer_mut(tokenId) ==
    transfer(escrowTransactions[tokenId].buyer,
             sellerAmount(escrowTransactions[tokenId].price))

_refundBuyer(tokenId) ==
    transfer(escrowTransactions[tokenId].buyer, escrowTransactions[tokenId].price)

\* mutant: the status require dropped
listTicket_require_anyStatus(sender, tokenId, price) ==
    /\ nonReentrant
    /\ ~paused
    /\ validTokenId(tokenId)
    /\ owners[tokenId] = sender
    /\ price > 0
    /\ ~listings[tokenId].active

\* mutant: the "already listed" require dropped
listTicket_require_mut(sender, tokenId, price) ==
    /\ nonReentrant
    /\ ~paused
    /\ validTokenId(tokenId)
    /\ owners[tokenId] = sender
    /\ price > 0
    /\ ticketInfo[tokenId].status \in {VERIFIED, UNLOCKED}

\* listTicket(tokenId, price)
listTicket_require(sender, tokenId, price) ==
    /\ nonReentrant
    /\ ~paused
    /\ validTokenId(tokenId)
    /\ owners[tokenId] = sender
    /\ price > 0
    /\ ~listings[tokenId].active
    /\ ticketInfo[tokenId].status \in {VERIFIED, UNLOCKED}

listTicket(sender, tokenId, price) ==
        /\ listTicket_require(sender, tokenId, price)
        /\ listings' = [listings EXCEPT ![tokenId] =
                [seller |-> sender, price |-> price, active |-> TRUE]]
        /\ listedTokenIds' = Append(listedTokenIds, tokenId)
        /\ last' = Call("listTicket", sender, tokenId, price, FALSE)
        /\ emitted' = <<"TicketListed">>
        /\ UNCHANGED <<nftVars, marketplaceFee, escrowTransactions, admins,
                       escrowTokenIds, paused, balance, now, payVars>>

\* unlistTicket(tokenId)
unlistTicket_require(sender, tokenId) ==
    /\ nonReentrant
    /\ validTokenId(tokenId)
    /\ listings[tokenId].seller = sender
    /\ listings[tokenId].active
    /\ ~_isInEscrow(tokenId)

unlistTicket(sender, tokenId) ==
        /\ unlistTicket_require(sender, tokenId)
        /\ listings' = [listings EXCEPT ![tokenId].active = FALSE]
        /\ _removeFromListedTokens(tokenId)
        /\ last' = Call("unlistTicket", sender, tokenId, 0, FALSE)
        /\ emitted' = <<"TicketUnlisted">>
        /\ UNCHANGED <<nftVars, marketplaceFee, escrowTransactions, admins,
                       escrowTokenIds, paused, balance, now, payVars>>

\* mutant: overpayment accepted
purchaseTicket_check_mut(sender, tokenId, value) ==
    /\ listings[tokenId].active
    /\ value >= listings[tokenId].price
    /\ sender # listings[tokenId].seller
    /\ ~_isInEscrow(tokenId)

\* purchaseTicket(tokenId) with msg.value = value
purchaseTicket_check(sender, tokenId, value) ==
    /\ listings[tokenId].active
    /\ value = listings[tokenId].price
    /\ sender # listings[tokenId].seller
    /\ ~_isInEscrow(tokenId)

purchaseTicket_require(sender, tokenId, value) ==
    /\ nonReentrant
    /\ ~paused
    /\ validTokenId(tokenId)
    /\ purchaseTicket_check(sender, tokenId, value)
    /\ lockTicket_require(MARKET, tokenId)
    /\ marketplaceTransfer_require(MARKET, listings[tokenId].seller, sender, tokenId)

\* msg.value moves from the caller to the marketplace with the call
pay(sender, value) ==
    balance' = [balance EXCEPT ![sender] = @ - value, ![MARKET] = @ + value]

\* mutant: the listing left active by the purchase
purchaseTicket_keepsListing(sender, tokenId, value) ==
    LET listing == listings[tokenId]
    IN  /\ balance[sender] >= value
        /\ purchaseTicket_require(sender, tokenId, value)
        /\ lockTicket(tokenId)
        /\ escrowTransactions' = [escrowTransactions EXCEPT ![tokenId] =
                [seller |-> listing.seller, buyer |-> sender,
                 price |-> listing.price, startTime |-> now,
                 sellerConfirmed |-> FALSE, buyerConfirmed |-> FALSE,
                 disputed |-> FALSE, completed |-> FALSE,
                 disputeReason |-> ""]]
        /\ _transfer(listing.seller, sender, tokenId)
        /\ escrowTokenIds' = Append(escrowTokenIds, tokenId)
        /\ pay(sender, value)
        /\ last' = Call("purchaseTicket", sender, tokenId, value, FALSE)
        /\ emitted' = lockTicket_events \o <<"TicketPurchased", "EscrowCreated">>
        /\ UNCHANGED <<tokenIdCounter, authorizedMarketplace, nftAdmins,
                       nftPaused, marketplaceFee, listings, listedTokenIds,
                       admins, paused, now, payVars>>

purchaseTicket(sender, tokenId, value) ==
    LET listing == listings[tokenId]
    IN  /\ balance[sender] >= value     \* the caller holds the ether it sends
        /\ purchaseTicket_require(sender, tokenId, value)
        /\ lockTicket(tokenId)
        /\ escrowTransactions' = [escrowTransactions EXCEPT ![tokenId] =
                [seller |-> listing.seller, buyer |-> sender,
                 price |-> listing.price, startTime |-> now,
                 sellerConfirmed |-> FALSE, buyerConfirmed |-> FALSE,
                 disputed |-> FALSE, completed |-> FALSE,
                 disputeReason |-> ""]]
        /\ _transfer(listing.seller, sender, tokenId)
        /\ listings' = [listings EXCEPT ![tokenId].active = FALSE]
        /\ _removeFromListedTokens(tokenId)
        /\ escrowTokenIds' = Append(escrowTokenIds, tokenId)
        /\ pay(sender, value)
        /\ last' = Call("purchaseTicket", sender, tokenId, value, FALSE)
        /\ emitted' = lockTicket_events \o <<"TicketPurchased", "EscrowCreated">>
        /\ UNCHANGED <<tokenIdCounter, authorizedMarketplace, nftAdmins,
                       nftPaused, marketplaceFee, admins, paused, now, payVars>>

\* _completeEscrow(tokenId); escrow is the storage record as the caller left it
_completeEscrow_require(tokenId) ==
    /\ _releaseFundsToSeller_require(tokenId)
    /\ unlockTicket_require(MARKET, tokenId)

\* mutant: the escrow paid out and unlocked, never marked completed
_completeEscrow_notMarked(tokenId, escrow) ==
    /\ _releaseFundsToSeller(tokenId)
    /\ unlockTicket(tokenId)
    /\ escrowTransactions' = [escrowTransactions EXCEPT ![tokenId] = escrow]
    /\ _removeFromEscrowTokens(tokenId)

\* mutant: the escrow completed, the ticket left locked
_completeEscrow_mut(tokenId, escrow) ==
    /\ _releaseFundsToSeller(tokenId)
    /\ UNCHANGED <<isLocked, ticketInfo>>
    /\ escrowTransactions' = [escrowTransactions EXCEPT ![tokenId] =
            [escrow EXCEPT !.completed = TRUE]]
    /\ _removeFromEscrowTokens(tokenId)

_completeEscrow(tokenId, escrow) ==
    /\ _releaseFundsToSeller(tokenId)
    /\ unlockTicket(tokenId)
    /\ escrowTransactions' = [escrowTransactions EXCEPT ![tokenId] =
            [escrow EXCEPT !.completed = TRUE]]
    /\ _removeFromEscrowTokens(tokenId)

\* mutant: the already-confirmed requires dropped
confirmTransaction_check_mut(sender, tokenId) ==
    LET escrow == escrowTransactions[tokenId]
    IN  /\ escrow.price > 0
        /\ ~escrow.completed
        /\ ~escrow.disputed
        /\ sender = escrow.buyer \/ sender = escrow.seller

\* confirmTransaction(tokenId)
confirmTransaction_check(sender, tokenId) ==
    LET escrow == escrowTransactions[tokenId]
    IN  /\ escrow.price > 0
        /\ ~escrow.completed
        /\ ~escrow.disputed
        /\ sender = escrow.buyer \/ sender = escrow.seller
        /\ IF sender = escrow.seller
           THEN ~escrow.sellerConfirmed
           ELSE ~escrow.buyerConfirmed

\* the escrow record after the caller's flag is set
confirmed(sender, escrow) ==
    IF sender = escrow.seller
    THEN [escrow EXCEPT !.sellerConfirmed = TRUE]
    ELSE [escrow EXCEPT !.buyerConfirmed = TRUE]

\* mutant: one confirmation is enough
bothConfirmed_mut(escrow) == escrow.sellerConfirmed \/ escrow.buyerConfirmed

bothConfirmed(escrow) == escrow.sellerConfirmed /\ escrow.buyerConfirmed

\* mutant: confirmTransaction made whenNotPaused
confirmTransaction_require_whenNotPaused(sender, tokenId) ==
    /\ nonReentrant
    /\ ~paused
    /\ validTokenId(tokenId)
    /\ confirmTransaction_check(sender, tokenId)
    /\ bothConfirmed(confirmed(sender, escrowTransactions[tokenId]))
          => _completeEscrow_require(tokenId)

confirmTransaction_require(sender, tokenId) ==
    /\ nonReentrant
    /\ validTokenId(tokenId)
    /\ confirmTransaction_check(sender, tokenId)
    /\ bothConfirmed(confirmed(sender, escrowTransactions[tokenId]))
          => _completeEscrow_require(tokenId)

confirmTransaction(sender, tokenId) ==
    LET escrow == confirmed(sender, escrowTransactions[tokenId])
    IN  /\ confirmTransaction_require(sender, tokenId)
        /\ IF bothConfirmed(escrow)
           THEN /\ _completeEscrow(tokenId, escrow)
                /\ UNCHANGED <<tokenIdCounter, owners, authorizedMarketplace,
                               nftAdmins, nftPaused, tokenApprovals, marketplaceFee, listings,
                               admins, listedTokenIds, paused>>
           ELSE /\ escrowTransactions' = [escrowTransactions EXCEPT ![tokenId] = escrow]
                /\ UNCHANGED <<nftVars, marketplaceFee, listings, admins,
                               listedTokenIds, escrowTokenIds, paused, balance>>
        /\ last' = Call("confirmTransaction", sender, tokenId, 0, FALSE)
        /\ emitted' = IF bothConfirmed(escrow)
                      THEN <<"TransactionConfirmed">> \o _completeEscrow_events
                      ELSE <<"TransactionConfirmed">>
        /\ UNCHANGED <<now, payVars>>

\* autoReleaseEscrow(tokenId)
autoReleaseEscrow_check(tokenId) ==
    LET escrow == escrowTransactions[tokenId]
    IN  /\ escrow.price > 0
        /\ ~escrow.completed
        /\ ~escrow.disputed
        /\ now >= escrow.startTime + CONFIRMATION_PERIOD

autoReleaseEscrow_require(tokenId) ==
    /\ nonReentrant
    /\ validTokenId(tokenId)
    /\ autoReleaseEscrow_check(tokenId)
    /\ _completeEscrow_require(tokenId)

autoReleaseEscrow(sender, tokenId) ==
        /\ autoReleaseEscrow_require(tokenId)
        /\ _completeEscrow(tokenId, escrowTransactions[tokenId])
        /\ last' = Call("autoReleaseEscrow", sender, tokenId, 0, FALSE)
        /\ emitted' = _completeEscrow_events
        /\ UNCHANGED <<tokenIdCounter, owners, authorizedMarketplace,
                       nftAdmins, nftPaused, tokenApprovals, marketplaceFee, listings,
                       admins, listedTokenIds, paused, now, payVars>>

\* mutant: the "dispute already raised" require dropped
raiseDispute_check_mut(sender, tokenId) ==
    LET escrow == escrowTransactions[tokenId]
    IN  /\ escrow.price > 0
        /\ ~escrow.completed
        /\ sender = escrow.buyer \/ sender = escrow.seller

\* raiseDispute(tokenId, reason)
raiseDispute_check(sender, tokenId) ==
    LET escrow == escrowTransactions[tokenId]
    IN  /\ escrow.price > 0
        /\ ~escrow.completed
        /\ ~escrow.disputed
        /\ sender = escrow.buyer \/ sender = escrow.seller

raiseDispute_require(sender, tokenId) ==
    /\ nonReentrant
    /\ validTokenId(tokenId)
    /\ raiseDispute_check(sender, tokenId)
    /\ markAsDisputed_require(MARKET, tokenId)

raiseDispute(sender, tokenId, reason) ==
        /\ raiseDispute_require(sender, tokenId)
        /\ escrowTransactions' = [escrowTransactions EXCEPT
                ![tokenId].disputed = TRUE,
                ![tokenId].disputeReason = reason]
        /\ markAsDisputed(tokenId)
        /\ last' = Call("raiseDispute", sender, tokenId, 0, FALSE)
        /\ emitted' = markAsDisputed_events \o <<"DisputeRaised">>
        /\ UNCHANGED <<tokenIdCounter, owners, isLocked, authorizedMarketplace,
                       nftAdmins, nftPaused, tokenApprovals, marketplaceFee, listings, admins,
                       listedTokenIds, escrowTokenIds, paused, balance, now, payVars>>

\* mutant: the "no dispute to resolve" require dropped
resolveDispute_check_mut(tokenId) == ~escrowTransactions[tokenId].completed

\* resolveDispute(tokenId, sellerWins)
resolveDispute_check(tokenId) ==
    /\ escrowTransactions[tokenId].disputed
    /\ ~escrowTransactions[tokenId].completed

resolveDispute_require(sender, tokenId, sellerWins) ==
    LET escrow == escrowTransactions[tokenId]
    IN  /\ onlyAdmin(sender)
        /\ nonReentrant
        /\ validTokenId(tokenId)
        /\ resolveDispute_check(tokenId)
        /\ IF sellerWins
           THEN /\ _releaseFundsToSeller_require(tokenId)
                /\ unlockTicket_require(MARKET, tokenId)
           ELSE /\ _refundBuyer_require(tokenId)
                /\ marketplaceTransfer_require(MARKET, escrow.buyer, escrow.seller, tokenId)
                /\ unlockTicket_require(MARKET, tokenId)

resolveDispute(sender, tokenId, sellerWins) ==
    LET escrow == escrowTransactions[tokenId]
    IN  /\ resolveDispute_require(sender, tokenId, sellerWins)
        /\ IF sellerWins
           THEN /\ _releaseFundsToSeller(tokenId)
                /\ unlockTicket(tokenId)
                /\ UNCHANGED <<owners, tokenApprovals>>
           ELSE /\ _refundBuyer(tokenId)
                /\ _transfer(escrow.buyer, escrow.seller, tokenId)
                /\ unlockTicket(tokenId)
        /\ escrowTransactions' = [escrowTransactions EXCEPT
                ![tokenId].completed = TRUE]
        /\ _removeFromEscrowTokens(tokenId)
        /\ last' = Call("resolveDispute", sender, tokenId, 0, sellerWins)
        /\ emitted' = unlockTicket_events \o <<"DisputeResolved">>
        /\ UNCHANGED <<tokenIdCounter, authorizedMarketplace, nftAdmins,
                       nftPaused, marketplaceFee, listings, admins,
                       listedTokenIds, paused, now, payVars>>

\* mutant: no ceiling on the fee
updateMarketplaceFee_require_mut(sender, newFee) == sender = OWNER

\* updateMarketplaceFee(newFee)
updateMarketplaceFee_require(sender, newFee) ==
    /\ sender = OWNER
    /\ newFee <= MAX_FEE

updateMarketplaceFee(sender, newFee) ==
        /\ updateMarketplaceFee_require(sender, newFee)
        /\ marketplaceFee' = newFee
        /\ last' = Call("updateMarketplaceFee", sender, 0, newFee, FALSE)
        /\ emitted' = <<"MarketplaceFeeUpdated">>
        /\ UNCHANGED <<nftVars, listings, escrowTransactions, admins, listedTokenIds,
                       escrowTokenIds, paused, balance, now, payVars>>

\* withdrawFees(): the amount sent is address(this).balance
withdrawFees_amount == balance[MARKET]

withdrawFees_require(sender) ==
    /\ sender = OWNER
    /\ withdrawFees_amount > 0
    /\ transfer_require(OWNER, withdrawFees_amount)

withdrawFees(sender) ==
        /\ withdrawFees_require(sender)
        /\ transfer(OWNER, withdrawFees_amount)
        /\ last' = Call("withdrawFees", sender, 0, withdrawFees_amount, FALSE)
        /\ emitted' = <<"FeesWithdrawn">>
        /\ UNCHANGED <<nftVars, mktVars, now, payVars>>

\* addAdmin, removeAdmin, pause, unpause of the marketplace: onlyOwner
onlyOwner(sender) == sender = OWNER

mktAddAdmin(sender, admin) ==
        /\ onlyOwner(sender)
        /\ admins' = admins \cup {admin}
        /\ last' = AdminCall("marketplace.addAdmin", sender, admin)
        /\ emitted' = <<>>
        /\ UNCHANGED <<nftVars, marketplaceFee, listings, escrowTransactions,
                       listedTokenIds, escrowTokenIds, paused, balance, now, payVars>>

mktRemoveAdmin(sender, admin) ==
        /\ onlyOwner(sender)
        /\ admins' = admins \ {admin}
        /\ last' = AdminCall("marketplace.removeAdmin", sender, admin)
        /\ emitted' = <<>>
        /\ UNCHANGED <<nftVars, marketplaceFee, listings, escrowTransactions,
                       listedTokenIds, escrowTokenIds, paused, balance, now, payVars>>

mktPause(sender) ==
        /\ onlyOwner(sender)
        /\ ~paused
        /\ paused' = TRUE
        /\ last' = Call("marketplace.pause", sender, 0, 0, FALSE)
        /\ emitted' = <<>>
        /\ UNCHANGED <<nftVars, marketplaceFee, listings, escrowTransactions, admins,
                       listedTokenIds, escrowTokenIds, balance, now, payVars>>

mktUnpause(sender) ==
        /\ onlyOwner(sender)
        /\ paused
        /\ paused' = FALSE
        /\ last' = Call("marketplace.unpause", sender, 0, 0, FALSE)
        /\ emitted' = <<>>
        /\ UNCHANGED <<nftVars, marketplaceFee, listings, escrowTransactions, admins,
                       listedTokenIds, escrowTokenIds, balance, now, payVars>>

\* a later block: block.timestamp grows
AdvanceTime(d) ==
    /\ now + d <= MaxNow
    /\ now' = now + d
    /\ last' = Call("advanceTime", NoOne, 0, d, FALSE)
    /\ emitted' = <<>>
    /\ UNCHANGED <<coreVars, payVars>>

\* ------------------------------------------------------------------- Next
Mint == \E to \in Minters : mintTicket(to, to)
Verify == \E sender \in Users, tokenId \in Tokens : verifyTicket(sender, tokenId)
Transfer == \E sender \in Users, from \in Users, to \in Users, tokenId \in Tokens :
                transferFrom(sender, from, to, tokenId)
List == \E sender \in Users, tokenId \in Tokens, price \in ListPrices :
            listTicket(sender, tokenId, price)
Unlist == \E sender \in Users, tokenId \in Tokens : unlistTicket(sender, tokenId)
Purchase == \E sender \in Users, tokenId \in Tokens, value \in Payments :
                purchaseTicket(sender, tokenId, value)
Confirm == \E sender \in Users, tokenId \in Tokens : confirmTransaction(sender, tokenId)
AutoRelease == \E sender \in Users, tokenId \in Tokens : autoReleaseEscrow(sender, tokenId)
RaiseDispute == \E sender \in Users, tokenId \in Tokens, reason \in Reasons :
                    raiseDispute(sender, tokenId, reason)
ResolveDispute == \E sender \in Users, tokenId \in Tokens, sellerWins \in BOOLEAN :
                      resolveDispute(sender, tokenId, sellerWins)
UpdateFee == \E sender \in Users, newFee \in FeeChoices : updateMarketplaceFee(sender, newFee)
WithdrawFees == \E sender \in Users : withdrawFees(sender)
Tick == \E d \in TimeSteps : AdvanceTime(d)

Next ==
    \/ Mint
    \/ Verify
    \/ Transfer
    \/ List
    \/ Unlist
    \/ Purchase
    \/ Confirm
    \/ AutoRelease
    \/ RaiseDispute
    \/ ResolveDispute
    \/ UpdateFee
    \/ WithdrawFees
    \/ Tick

Spec == Init /\ [][Next]_vars

\* The deployed system where one of the accounts may be a contract whose
\* receive function reverts: a transfer of ether to it fails.
InitFailing ==
    /\ tokenIdCounter = 0
    /\ owners = [t \in Tokens |-> NoOne]
    /\ ticketInfo = [t \in Tokens |-> [status |-> PENDING]]
    /\ isLocked = [t \in Tokens |-> FALSE]
    /\ authorizedMarketplace = {MARKET}
    /\ nftAdmins = {OWNER}
    /\ nftPaused = FALSE
    /\ tokenApprovals = [t \in Tokens |-> NoOne]
    /\ marketplaceFee = InitialFee
    /\ listings = [t \in Tokens |-> NoListing]
    /\ escrowTransactions = [t \in Tokens |-> NoEscrow]
    /\ admins = {OWNER}
    /\ listedTokenIds = <<>>
    /\ escrowTokenIds = <<>>
    /\ paused = FALSE
    /\ balance = [a \in Accounts |-> IF a = MARKET THEN 0 ELSE InitBalance]
    /\ now = 0
    /\ rejecting \in RejectingChoices
    /\ _status = NOT_ENTERED
    /\ pending = NoCall
    /\ last = Call("deploy", OWNER, 0, 0, FALSE)
    /\ emitted = <<>>

SpecFailing == InitFailing /\ [][Next]_vars

\* The payout seen from inside.  payable(x).transfer(amount) is the first
\* thing _completeEscrow and resolveDispute do after their requires: the
\* ether moves and the code of x runs while the escrow is not yet completed
\* and the ticket still locked.  A call whose payout is under way is held in
\* `pending` from its begin step to endPayout, which does the rest of the
\* function.  The receiver runs with the 2300 gas of transfer, which no
\* storage write survives, so nothing else commits in between.
confirmTransaction_begin(sender, tokenId) ==
    LET escrow == confirmed(sender, escrowTransactions[tokenId])
    IN  /\ pending = NoCall
        /\ confirmTransaction_require(sender, tokenId)
        /\ bothConfirmed(escrow)
        /\ escrowTransactions' = [escrowTransactions EXCEPT ![tokenId] = escrow]
        /\ _releaseFundsToSeller(tokenId)
        /\ _status' = ENTERED
        /\ pending' = [op |-> "confirmTransaction", caller |-> sender,
                       tokenId |-> tokenId, flag |-> FALSE, payee |-> escrow.seller]
        /\ UNCHANGED <<nftVars, marketplaceFee, listings, admins, listedTokenIds,
                       escrowTokenIds, paused, now, last, emitted, rejecting>>

autoReleaseEscrow_begin(sender, tokenId) ==
        /\ pending = NoCall
        /\ autoReleaseEscrow_require(tokenId)
        /\ _releaseFundsToSeller(tokenId)
        /\ _status' = ENTERED
        /\ pending' = [op |-> "autoReleaseEscrow", caller |-> sender,
                       tokenId |-> tokenId, flag |-> FALSE,
                       payee |-> escrowTransactions[tokenId].seller]
        /\ UNCHANGED <<nftVars, mktVars, now, last, emitted, rejecting>>

resolveDispute_begin(sender, tokenId, sellerWins) ==
    LET escrow == escrowTransactions[tokenId]
    IN  /\ pending = NoCall
        /\ resolveDispute_require(sender, tokenId, sellerWins)
        /\ IF sellerWins
           THEN _releaseFundsToSeller(tokenId)
           ELSE _refundBuyer(tokenId)
        /\ _status' = ENTERED
        /\ pending' = [op |-> "resolveDispute", caller |-> sender,
                       tokenId |-> tokenId, flag |-> sellerWins,
                       payee |-> IF sellerWins THEN escrow.seller ELSE escrow.buyer]
        /\ UNCHANGED <<nftVars, mktVars, now, last, emitted, rejecting>>

\* the rest of _completeEscrow / resolveDispute after the transfer returned
endPayout ==
    LET tokenId == pending.tokenId
        escrow == escrowTransactions[tokenId]
    IN  /\ pending # NoCall
        /\ IF pending.op = "resolveDispute" /\ ~pending.flag
           THEN _transfer(escrow.buyer, escrow.seller, tokenId)
           ELSE UNCHANGED <<owners, tokenApprovals>>
        /\ unlockTicket(tokenId)
        /\ escrowTransactions' = [escrowTransactions EXCEPT
                ![tokenId].completed = TRUE]
        /\ _removeFromEscrowTokens(tokenId)
        /\ _status' = NOT_ENTERED
        /\ pending' = NoCall
        /\ last' = Call(pending.op, pending.caller, tokenId, 0, pending.flag)
        /\ emitted' = CASE pending.op = "confirmTransaction"
                            -> <<"TransactionConfirmed">> \o _completeEscrow_events
                         [] pending.op = "autoReleaseEscrow"
                            -> _completeEscrow_events
                         [] OTHER
                            -> unlockTicket_events \o <<"DisputeResolved">>
        /\ UNCHANGED <<tokenIdCounter, authorizedMarketplace, nftAdmins,
                       nftPaused, marketplaceFee, listings, admins,
                       listedTokenIds, paused, balance, now, rejecting>>

BeginConfirm == \E sender \in Users, tokenId \in Tokens :
                    confirmTransaction_begin(sender, tokenId)
BeginAutoRelease == \E sender \in Users, tokenId \in Tokens :
                        autoReleaseEscrow_begin(sender, tokenId)
BeginResolveDispute ==
    \E sender \in Users, tokenId \in Tokens, sellerWins \in BOOLEAN :
        resolveDispute_begin(sender, tokenId, sellerWins)

\* a new transaction starts only when no call is under way
NextReentrant ==
    \/ (pending = NoCall /\ Next)
    \/ BeginConfirm
    \/ BeginAutoRelease
    \/ BeginResolveDispute
    \/ endPayout

SpecReentrant == Init /\ [][NextReentrant]_vars

\* The registry on its own, as test/EventTicketNFT.test.js drives it: deployed
\* by OWNER, nothing authorized yet; the authorized marketplace is an account
\* that calls lockTicket, unlockTicket, markAsDisputed and marketplaceTransfer.
InitRegistry ==
    /\ tokenIdCounter = 0
    /\ owners = [t \in Tokens |-> NoOne]
    /\ ticketInfo = [t \in Tokens |-> [status |-> PENDING]]
    /\ isLocked = [t \in Tokens |-> FALSE]
    /\ authorizedMarketplace = {}
    /\ nftAdmins = {OWNER}
    /\ nftPaused = FALSE
    /\ tokenApprovals = [t \in Tokens |-> NoOne]
    /\ marketplaceFee = InitialFee
    /\ listings = [t \in Tokens |-> NoListing]
    /\ escrowTransactions = [t \in Tokens |-> NoEscrow]
    /\ admins = {OWNER}
    /\ listedTokenIds = <<>>
    /\ escrowTokenIds = <<>>
    /\ paused = FALSE
    /\ balance = [a \in Accounts |-> IF a = MARKET THEN 0 ELSE InitBalance]
    /\ now = 0
    /\ rejecting = {}
    /\ _status = NOT_ENTERED
    /\ pending = NoCall
    /\ last = Call("deploy", OWNER, 0, 0, FALSE)
    /\ emitted = <<>>

Approve == \E sender \in Users, to \in Users, tokenId \in Tokens :
               approve(sender, to, tokenId)
Burn == \E sender \in Users, tokenId \in Tokens : burn(sender, tokenId)
LockTicket == \E sender \in Accounts, tokenId \in Tokens : lockTicketCall(sender, tokenId)
UnlockTicket == \E sender \in Accounts, tokenId \in Tokens :
                    unlockTicketCall(sender, tokenId)
MarkAsDisputed == \E sender \in Accounts, tokenId \in Tokens :
                      markAsDisputedCall(sender, tokenId)
MarketplaceTransfer ==
    \E sender \in Accounts, from \in Users, to \in Users, tokenId \in Tokens :
        marketplaceTransfer(sender, from, to, tokenId)
AddAdmin == \E sender \in Users, admin \in AdminCandidates : nftAddAdmin(sender, admin)
RemoveAdmin == \E sender \in Users, admin \in AdminCandidates :
                   nftRemoveAdmin(sender, admin)
AuthorizeMarketplace == \E sender \in Users, marketplace \in MarketplaceCandidates :
                            authorizeMarketplace(sender, marketplace)
Pause == \E sender \in Users : nftPause(sender)
Unpause == \E sender \in Users : nftUnpause(sender)

NextRegistry ==
    \/ Mint
    \/ Verify
    \/ Approve
    \/ Transfer
    \/ Burn
    \/ LockTicket
    \/ UnlockTicket
    \/ MarkAsDisputed
    \/ MarketplaceTransfer
    \/ AddAdmin
    \/ RemoveAdmin
    \/ AuthorizeMarketplace
    \/ Pause
    \/ Unpause

SpecRegistry == InitRegistry /\ [][NextRegistry]_vars

\* The deployed system with the owner's administration of both contracts:
\* admins added and removed, either contract paused and unpaused.  The fee
\* and the clock stay as deployed.
MktAddAdmin == \E sender \in Users, admin \in AdminCandidates : mktAddAdmin(sender, admin)
MktRemoveAdmin == \E sender \in Users, admin \in AdminCandidates :
                      mktRemoveAdmin(sender, admin)
MktPause == \E sender \in Users : mktPause(sender)
MktUnpause == \E sender \in Users : mktUnpause(sender)

NextAdmin ==
    \/ Mint
    \/ Verify
    \/ Transfer
    \/ List
    \/ Unlist
    \/ Purchase
    \/ Confirm
    \/ RaiseDispute
    \/ ResolveDispute
    \/ AddAdmin
    \/ RemoveAdmin
    \/ Pause
    \/ Unpause
    \/ MktAddAdmin
    \/ MktRemoveAdmin
    \/ MktPause
    \/ MktUnpause

SpecAdmin == Init /\ [][NextAdmin]_vars

\* The deployed system with the registry functions every holder can call
\* besides transferFrom: approve and burn (ERC721, ERC721Burnable).  The fee
\* and the clock stay as deployed.
NextCustody ==
    \/ Mint
    \/ Verify
    \/ Approve
    \/ Transfer
    \/ Burn
    \/ List
    \/ Unlist
    \/ Purchase
    \/ Confirm
    \/ RaiseDispute
    \/ ResolveDispute

SpecCustody == Init /\ [][NextCustody]_vars

\* The deployed system with MaxIndexTokens tickets, to see the two index
\* arrays with several ids in them.  One price, the fee and the clock as
\* deployed, no transfers outside the marketplace.
InitIndex ==
    /\ tokenIdCounter = 0
    /\ owners = [t \in IndexTokens |-> NoOne]
    /\ ticketInfo = [t \in IndexTokens |-> [status |-> PENDING]]
    /\ isLocked = [t \in IndexTokens |-> FALSE]
    /\ authorizedMarketplace = {MARKET}
    /\ nftAdmins = {OWNER}
    /\ nftPaused = FALSE
    /\ tokenApprovals = [t \in IndexTokens |-> NoOne]
    /\ marketplaceFee = InitialFee
    /\ listings = [t \in IndexTokens |-> NoListing]
    /\ escrowTransactions = [t \in IndexTokens |-> NoEscrow]
    /\ admins = {OWNER}
    /\ listedTokenIds = <<>>
    /\ escrowTokenIds = <<>>
    /\ paused = FALSE
    /\ balance = [a \in Accounts |-> IF a = MARKET THEN 0 ELSE InitBalance]
    /\ now = 0
    /\ rejecting = {}
    /\ _status = NOT_ENTERED
    /\ pending = NoCall
    /\ last = Call("deploy", OWNER, 0, 0, FALSE)
    /\ emitted = <<>>

IndexPrice == 39
IndexBuyer == "bob"

VerifyMany == \E tokenId \in IndexTokens : verifyTicket(OWNER, tokenId)
ListMany == \E sender \in Users, tokenId \in IndexTokens :
                listTicket(sender, tokenId, IndexPrice)
UnlistMany == \E sender \in Users, tokenId \in IndexTokens :
                  unlistTicket(sender, tokenId)
PurchaseMany == \E tokenId \in IndexTokens :
                    purchaseTicket(IndexBuyer, tokenId, IndexPrice)
ConfirmMany == \E sender \in Users, tokenId \in IndexTokens :
                   confirmTransaction(sender, tokenId)
RaiseDisputeMany == \E tokenId \in IndexTokens, reason \in Reasons :
                        raiseDispute(IndexBuyer, tokenId, reason)
ResolveDisputeMany == \E tokenId \in IndexTokens, sellerWins \in BOOLEAN :
                          resolveDispute(OWNER, tokenId, sellerWins)

NextIndex ==
    \/ Mint
    \/ VerifyMany
    \/ ListMany
    \/ UnlistMany
    \/ PurchaseMany
    \/ ConfirmMany
    \/ RaiseDisputeMany
    \/ ResolveDisputeMany

SpecIndex == InitIndex /\ [][NextIndex]_vars

\* The deployed system where the owner changes the fee only while an escrow
\* is open and every ticket has been purchased: every purchase is made at
\* the fee of the deployment, and a settlement may find another fee in force.
UpdateFeeInEscrow ==
    /\ \E tokenId \in Tokens : _isInEscrow(tokenId)
    /\ \A tokenId \in Tokens : escrowTransactions[tokenId].price > 0
    /\ UpdateFee

NextFee ==
    \/ Mint
    \/ Verify
    \/ List
    \/ Purchase
    \/ Confirm
    \/ AutoRelease
    \/ RaiseDispute
    \/ ResolveDispute
    \/ UpdateFeeInEscrow
    \/ Tick

SpecFee == Init /\ [][NextFee]_vars

\* The deployed system with the owner pausing and unpausing the marketplace
\* at any moment of a sale.
NextPause ==
    \/ Mint
    \/ Verify
    \/ List
    \/ Unlist
    \/ Purchase
    \/ Confirm
    \/ AutoRelease
    \/ RaiseDispute
    \/ ResolveDispute
    \/ WithdrawFees
    \/ MktPause
    \/ MktUnpause
    \/ Tick

SpecPause == Init /\ [][NextPause]_vars

TypeOK ==
    /\ tokenIdCounter \in 0 .. Cardinality(DOMAIN owners)
    /\ \A t \in DOMAIN owners : owners[t] \in Users \cup {NoOne}
    /\ \A t \in DOMAIN owners : ticketInfo[t].status \in TicketStatus
    /\ \A a \in Accounts : balance[a] >= 0
    /\ marketplaceFee \in 0 .. MAX_FEE

\* ----------------------------------------------------------------- claims
InArray(arr, tokenId) == \E i \in 1 .. Len(arr) : arr[i] = tokenId

Occurrences(arr, tokenId) == Cardinality({i \in 1 .. Len(arr) : arr[i] = tokenId})

\* the payments held for the open escrows of the tokens in S
RECURSIVE OpenEscrowTotal(_)
OpenEscrowTotal(S) ==
    IF S = {}
    THEN 0
    ELSE LET t == CHOOSE x \in S : TRUE
         IN  (IF _isInEscrow(t) THEN escrowTransactions[t].price ELSE 0)
                 + OpenEscrowTotal(S \ {t})

\* the step commits a call of op on tokenId
Committed(op, tokenId) ==
    /\ last'.op = op
    /\ last'.tokenId = tokenId
    /\ vars' # vars

\* C1 (as claimed): for every asset the lock flag is true if and only if the
\* asset's status is Locked.
C1_LockedIffStatusLocked ==
    \A t \in Tokens : isLocked[t] <=> ticketInfo[t].status = LOCKED

\* C1 (amended): for every asset the lock flag is true if and only if the
\* asset's status is Locked or Disputed: raiseDispute sets the status to
\* Disputed and leaves the lock flag set until resolveDispute unlocks.
C1_LockedIffLockedOrDisputed ==
    \A t \in Tokens : isLocked[t] <=> ticketInfo[t].status \in {LOCKED, DISPUTED}

C1_Witness ==
    \E t \in Tokens :
        /\ last.op = "raiseDispute"
        /\ last.tokenId = t
        /\ isLocked[t]
        /\ ticketInfo[t].status = DISPUTED

\* C2: after withdrawFees the engine's balance is still at least the sum of
\* the prices of all open escrows (only the accumulated fees leave).
C2_WithdrawKeepsEscrowedFunds ==
    last.op = "withdrawFees" => balance[MARKET] >= OpenEscrowTotal(Tokens)

\* C3: an Unlocked asset that its owner has listed again can be purchased:
\* the purchase of that listing with exact payment by another party that
\* holds the price is accepted.
C3_RelistedAssetCanBePurchased ==
    \A t \in Tokens, buyer \in Users :
        ( /\ ticketInfo[t].status = UNLOCKED
          /\ listings[t].active
          /\ listings[t].seller = owners[t]
          /\ buyer # listings[t].seller
          /\ balance[buyer] >= listings[t].price )
        => purchaseTicket_require(buyer, t, listings[t].price)

\* C4: a settlement (the completing confirm, or autoRelease) pays the seller
\* exactly price - floor(price * feeBps / 10000) out of the engine, so that
\* floor(price * feeBps / 10000) of the price stays in the engine; payout
\* plus fee is the price.
C4_SettlementSplit ==
    [][\A t \in Tokens :
          ( /\ Committed("confirmTransaction", t) \/ Committed("autoReleaseEscrow", t)
            /\ ~escrowTransactions[t].completed
            /\ escrowTransactions'[t].completed )
          => LET e == escrowTransactions[t]
                 f == (e.price * marketplaceFee) \div 10000
             IN  /\ e.price > 0
                 /\ marketplaceFee \in 0 .. 1000
                 /\ balance'[e.seller] = balance[e.seller] + (e.price - f)
                 /\ balance'[MARKET] = balance[MARKET] - (e.price - f)
                 /\ \A a \in Accounts \ {e.seller, MARKET} : balance'[a] = balance[a]
                 /\ f >= 0
                 /\ (e.price - f) + f = e.price
                 /\ (e.price = 1000 /\ marketplaceFee = 250) => (e.price - f = 975 /\ f = 25)
      ]_vars

C4_Witness ==
    \E t \in Tokens :
        /\ last.op = "confirmTransaction"
        /\ last.tokenId = t
        /\ escrowTransactions[t].completed
        /\ escrowTransactions[t].price = 1000
        /\ marketplaceFee = 250
        /\ balance[escrowTransactions[t].seller] = InitBalance + 975
        /\ balance[MARKET] = 25

\* C5: a committed purchase of a Verified, actively listed asset by a buyer
\* other than the seller paying exactly the listing price leaves the asset
\* Locked with the lock flag set and owned by the buyer, the listing inactive
\* and out of the listed index, and one open escrow with all four flags
\* false, the listing's price and seller and the buyer, in the in-escrow index.
C5_PurchaseEffects ==
    [][\A t \in Tokens :
          ( /\ Committed("purchaseTicket", t)
            /\ ticketInfo[t].status = VERIFIED
            /\ listings[t].active
            /\ last'.caller # listings[t].seller
            /\ last'.amount = listings[t].price )
          => /\ ticketInfo'[t].status = LOCKED
             /\ isLocked'[t]
             /\ owners'[t] = last'.caller
             /\ ~listings'[t].active
             /\ ~InArray(listedTokenIds', t)
             /\ escrowTransactions'[t].seller = listings[t].seller
             /\ escrowTransactions'[t].buyer = last'.caller
             /\ escrowTransactions'[t].price = listings[t].price
             /\ ~escrowTransactions'[t].sellerConfirmed
             /\ ~escrowTransactions'[t].buyerConfirmed
             /\ ~escrowTransactions'[t].disputed
             /\ ~escrowTransactions'[t].completed
             /\ Occurrences(escrowTokenIds', t) = 1
      ]_vars

C5_Witness ==
    \E t \in Tokens :
        /\ last.op = "purchaseTicket"
        /\ last.tokenId = t
        /\ last.amount = escrowTransactions[t].price
        /\ owners[t] = last.caller
        /\ ticketInfo[t].status = LOCKED
        /\ InArray(escrowTokenIds, t)

\* C6: a purchase whose payment differs from the price of the listing (over
\* or under) is rejected; a rejected call reverts, so it changes no balance,
\* listing, escrow or asset.
C6_WrongPaymentRejected ==
    \A t \in Tokens, sender \in Users, value \in Payments :
        value # listings[t].price => ~purchaseTicket_require(sender, t, value)

\* a listing that would be sold at the exact price, and a buyer who can overpay
C6_Witness ==
    \E t \in Tokens, sender \in Users, value \in Payments :
        /\ purchaseTicket_require(sender, t, listings[t].price)
        /\ value > listings[t].price
        /\ balance[sender] >= value

\* C7: a confirm sets the flag of the calling party and no other field; it
\* settles the escrow exactly when both flags are then true.  After one
\* confirmation the escrow is open, the asset locked and no funds have moved;
\* after the other party's the escrow is completed, the seller paid and the
\* asset Unlocked, whichever party confirmed first.
C7_ConfirmSettlesWhenBoth ==
    [][\A t \in Tokens :
          Committed("confirmTransaction", t)
          => LET e == escrowTransactions[t]
                 c == last'.caller
                 flagged == IF c = e.seller
                            THEN [e EXCEPT !.sellerConfirmed = TRUE]
                            ELSE [e EXCEPT !.buyerConfirmed = TRUE]
                 both == flagged.sellerConfirmed /\ flagged.buyerConfirmed
             IN  /\ c \in {e.seller, e.buyer}
                 /\ e.seller # e.buyer
                 /\ escrowTransactions'[t] = [flagged EXCEPT !.completed = both]
                 /\ IF both
                    THEN /\ ticketInfo'[t].status = UNLOCKED
                         /\ ~isLocked'[t]
                         /\ balance'[e.seller] - balance[e.seller]
                               = e.price - ((e.price * marketplaceFee) \div 10000)
                         /\ balance[MARKET] - balance'[MARKET]
                               = e.price - ((e.price * marketplaceFee) \div 10000)
                    ELSE /\ ticketInfo'[t].status = LOCKED
                         /\ isLocked'[t]
                         /\ balance' = balance
                 /\ owners' = owners
      ]_vars

\* the seller confirms after the buyer and completes the escrow
C7_Witness ==
    \E t \in Tokens :
        /\ last.op = "confirmTransaction"
        /\ last.tokenId = t
        /\ last.caller = escrowTransactions[t].seller
        /\ escrowTransactions[t].completed
        /\ ticketInfo[t].status = UNLOCKED

\* C8: a second confirm by the party that has already confirmed an open
\* escrow is rejected (and, reverting, changes nothing).
C8_SecondConfirmRejected ==
    \A t \in Tokens, sender \in Users :
        LET e == escrowTransactions[t]
        IN  ( /\ _isInEscrow(t)
              /\ \/ sender = e.seller /\ e.sellerConfirmed
                 \/ sender = e.buyer /\ e.buyerConfirmed )
            => ~confirmTransaction_require(sender, t)

C8_Witness ==
    \E t \in Tokens :
        /\ last.op = "confirmTransaction"
        /\ last.tokenId = t
        /\ _isInEscrow(t)
        /\ escrowTransactions[t].sellerConfirmed
        /\ last.caller = escrowTransactions[t].seller

\* C9: for an open, non-disputed escrow autoRelease is accepted exactly when
\* now >= startTime + confirmationPeriod.
C9_AutoReleaseIffDeadlinePassed ==
    \A t \in Tokens :
        (_isInEscrow(t) /\ ~escrowTransactions[t].disputed)
        => ( autoReleaseEscrow_require(t)
             <=> now >= escrowTransactions[t].startTime + CONFIRMATION_PERIOD )

\* C10: a committed resolveDispute with sellerWins = false refunds the buyer
\* the full price out of the engine, moves the asset from the buyer back to
\* the seller, leaves it Unlocked with the lock flag cleared, marks the
\* escrow completed and takes it out of the in-escrow index.
C10_BuyerWinsRefund ==
    [][\A t \in Tokens :
          (Committed("resolveDispute", t) /\ ~last'.flag)
          => LET e == escrowTransactions[t]
             IN  /\ e.disputed /\ ~e.completed
                 /\ balance'[e.buyer] = balance[e.buyer] + e.price
                 /\ balance'[MARKET] = balance[MARKET] - e.price
                 /\ \A a \in Accounts \ {e.buyer, MARKET} : balance'[a] = balance[a]
                 /\ owners[t] = e.buyer
                 /\ owners'[t] = e.seller
                 /\ ticketInfo'[t].status = UNLOCKED
                 /\ ~isLocked'[t]
                 /\ escrowTransactions'[t] = [e EXCEPT !.completed = TRUE]
                 /\ ~InArray(escrowTokenIds', t)
      ]_vars

C10_Witness ==
    \E t \in Tokens :
        /\ last.op = "resolveDispute"
        /\ last.tokenId = t
        /\ ~last.flag
        /\ escrowTransactions[t].completed
        /\ escrowTransactions[t].disputeReason = "item not received"
        /\ owners[t] = escrowTransactions[t].seller
        /\ balance[escrowTransactions[t].buyer] = InitBalance

\* C11: a committed resolveDispute with sellerWins = true pays the seller
\* price minus fee out of the engine, leaves the asset with the buyer,
\* Unlocked and with the lock flag cleared, marks the escrow completed and
\* takes it out of the in-escrow index.
C11_SellerWinsPayout ==
    [][\A t \in Tokens :
          (Committed("resolveDispute", t) /\ last'.flag)
          => LET e == escrowTransactions[t]
                 f == (e.price * marketplaceFee) \div 10000
             IN  /\ e.disputed /\ ~e.completed
                 /\ balance'[e.seller] = balance[e.seller] + (e.price - f)
                 /\ balance'[MARKET] = balance[MARKET] - (e.price - f)
                 /\ \A a \in Accounts \ {e.seller, MARKET} : balance'[a] = balance[a]
                 /\ owners[t] = e.buyer
                 /\ owners'[t] = e.buyer
                 /\ ticketInfo'[t].status = UNLOCKED
                 /\ ~isLocked'[t]
                 /\ escrowTransactions'[t] = [e EXCEPT !.completed = TRUE]
                 /\ ~InArray(escrowTokenIds', t)
      ]_vars

C11_Witness ==
    \E t \in Tokens :
        /\ last.op = "resolveDispute"
        /\ last.tokenId = t
        /\ last.flag
        /\ escrowTransactions[t].completed
        /\ escrowTransactions[t].price = 1000
        /\ owners[t] = escrowTransactions[t].buyer
        /\ balance[MARKET] = 25

\* C12: while an escrow is disputed and not completed, autoRelease and
\* confirm are rejected whatever the time, the payment held for it is still
\* in the engine, and the only step that completes it is a resolveDispute
\* by an admin.
C12_DisputeHoldsFunds ==
    /\ [](\A t \in Tokens :
             (escrowTransactions[t].disputed /\ ~escrowTransactions[t].completed)
             => /\ ~autoReleaseEscrow_require(t)
                /\ \A sender \in Users : ~confirmTransaction_require(sender, t)
                /\ balance[MARKET] >= OpenEscrowTotal(Tokens))
    /\ [][\A t \in Tokens :
             (/\ escrowTransactions[t].disputed
              /\ ~escrowTransactions[t].completed
              /\ escrowTransactions'[t].completed)
             => /\ last'.op = "resolveDispute"
                /\ last'.tokenId = t
                /\ onlyAdmin(last'.caller)]_vars

\* C13: a completed escrow record never changes again (completed stays
\* true, also when the asset is listed again), and confirm, autoRelease,
\* raiseDispute and resolveDispute on it are rejected.
C13_CompletedIsFinal ==
    /\ [](\A t \in Tokens :
             escrowTransactions[t].completed
             => /\ ~autoReleaseEscrow_require(t)
                /\ \A sender \in Users :
                      /\ ~confirmTransaction_require(sender, t)
                      /\ ~raiseDispute_require(sender, t)
                      /\ \A sellerWins \in BOOLEAN :
                            ~resolveDispute_require(sender, t, sellerWins))
    /\ [][\A t \in Tokens :
             escrowTransactions[t].completed
             => escrowTransactions'[t] = escrowTransactions[t]]_vars

\* the asset of a completed escrow has been listed again
C13_Witness ==
    \E t \in Tokens :
        /\ last.op = "listTicket"
        /\ last.tokenId = t
        /\ listings[t].active
        /\ escrowTransactions[t].completed

\* C14: list is rejected while the asset has an active listing and purchase
\* while it has an open escrow; no asset id is twice in the listed index or
\* twice in the in-escrow index.
C14_OneListingOneEscrow ==
    \A t \in Tokens :
        /\ listings[t].active
           => \A sender \in Users, price \in ListPrices :
                 ~listTicket_require(sender, t, price)
        /\ (escrowTransactions[t].price > 0 /\ ~escrowTransactions[t].completed)
           => \A sender \in Users, value \in Payments :
                 ~purchaseTicket_require(sender, t, value)
        /\ Occurrences(listedTokenIds, t) <= 1
        /\ Occurrences(escrowTokenIds, t) <= 1

\* an active listing of an asset its seller still owns and could list
C14_Witness ==
    \E t \in Tokens :
        /\ last.op = "listTicket"
        /\ last.tokenId = t
        /\ listings[t].active
        /\ owners[t] = listings[t].seller
        /\ ticketInfo[t].status = VERIFIED

\* C20: updateFee is rejected for every caller but the owner and for every
\* fee above 1000; the fee is at most 1000 basis points in every state, so
\* the fee of a settlement is at most the price.
C20_FeeCeiling ==
    /\ \A sender \in Users, newFee \in FeeChoices :
          (sender # OWNER \/ newFee > 1000)
          => ~updateMarketplaceFee_require(sender, newFee)
    /\ marketplaceFee <= 1000
    /\ \A price \in Prices : (price * marketplaceFee) \div 10000 <= price

C20_Witness ==
    /\ last.op = "updateMarketplaceFee"
    /\ last.caller = OWNER
    /\ marketplaceFee = 1000

\* C15: while the lock flag of an asset is set every transferFrom of it, by
\* its owner or by the approved account, is rejected; a step that changes
\* the owner of a locked asset is a marketplaceTransfer by an authorized
\* marketplace; after unlockTicket the owner's transferFrom is accepted
\* (registry not paused).
C15_LockBlocksOwnerChange ==
    /\ [](\A t \in Tokens :
             /\ isLocked[t]
                => \A sender \in Accounts, from \in Users, to \in Users :
                      ~transferFrom_require(sender, from, to, t)
             /\ (last.op = "unlockTicket" /\ last.tokenId = t /\ ~nftPaused)
                => \A to \in Users :
                      transferFrom_require(owners[t], owners[t], to, t))
    /\ [][\A t \in Tokens :
             (isLocked[t] /\ owners'[t] # owners[t])
             => /\ last'.op = "marketplaceTransfer"
                /\ last'.caller \in authorizedMarketplace]_vars

\* C16: lockTicket, unlockTicket, markAsDisputed and marketplaceTransfer are
\* rejected for every caller that is not an authorized marketplace and
\* verifyTicket for every caller that is neither an admin nor the owner; so
\* every committed call of them was made by such a caller.
C16_PrivilegedCallers ==
    /\ [](\A sender \in Accounts, t \in Tokens :
             /\ sender \notin authorizedMarketplace
                => /\ ~lockTicket_require(sender, t)
                   /\ ~unlockTicket_require(sender, t)
                   /\ ~markAsDisputed_require(sender, t)
                   /\ \A from \in Users, to \in Users :
                         ~marketplaceTransfer_require(sender, from, to, t)
             /\ (sender \notin nftAdmins /\ sender # OWNER)
                => ~verifyTicket_require(sender, t))
    /\ [][/\ last'.op \in {"lockTicket", "unlockTicket", "markAsDisputed",
                           "marketplaceTransfer"}
             => (vars' = vars \/ last'.caller \in authorizedMarketplace)
          /\ last'.op = "verifyTicket"
             => (vars' = vars \/ last'.caller \in nftAdmins \cup {OWNER})]_vars

\* an authorized marketplace has locked a ticket that others cannot touch
C16_Witness ==
    \E t \in Tokens :
        /\ last.op = "lockTicket"
        /\ last.caller = MARKET
        /\ authorizedMarketplace = {MARKET}
        /\ nftAdmins = {OWNER}
        /\ isLocked[t]
        /\ owners[t] = "alice"

\* C17: verify is rejected unless the status is Pending, lock unless it is
\* Verified, unlock unless the lock flag is set; a status changes only by
\* verify (Pending to Verified), lock (Verified to Locked), unlock (to
\* Unlocked) or markAsDisputed (to Disputed), and never back to Pending.
C17_StatusGraph ==
    /\ [](\A sender \in Accounts, t \in Tokens :
             /\ ticketInfo[t].status # PENDING => ~verifyTicket_require(sender, t)
             /\ ticketInfo[t].status # VERIFIED => ~lockTicket_require(sender, t)
             /\ ~isLocked[t] => ~unlockTicket_require(sender, t))
    /\ [][\A t \in Tokens :
             LET old == ticketInfo[t].status
                 new == ticketInfo'[t].status
             IN  /\ old # PENDING => new # PENDING
                 /\ new # old
                    => \/ /\ last'.op = "verifyTicket"
                          /\ old = PENDING /\ new = VERIFIED
                       \/ /\ last'.op = "lockTicket"
                          /\ old = VERIFIED /\ new = LOCKED /\ isLocked'[t]
                       \/ /\ last'.op = "unlockTicket"
                          /\ isLocked[t] /\ new = UNLOCKED /\ ~isLocked'[t]
                       \/ /\ last'.op = "markAsDisputed"
                          /\ new = DISPUTED]_vars

\* a verified ticket, which a second verify would not accept
C17_Witness ==
    \E t \in Tokens :
        /\ last.op = "verifyTicket"
        /\ last.tokenId = t
        /\ ticketInfo[t].status = VERIFIED
        /\ ~isLocked[t]

\* C18: when the transfer of the payout cannot be made (the receiver does
\* not accept it or the engine holds too little), the completing confirm,
\* autoRelease, resolveDispute and withdrawFees are rejected as a whole; an
\* escrow is only ever completed in a step that pays its receiver.
C18_FailedTransferAborts ==
    /\ [](/\ \A t \in Tokens :
               LET e == escrowTransactions[t]
                   payout == e.price - ((e.price * marketplaceFee) \div 10000)
                   sellerFails == e.seller \in rejecting \/ balance[MARKET] < payout
                   buyerFails == e.buyer \in rejecting \/ balance[MARKET] < e.price
               IN  /\ sellerFails
                      => /\ e.buyerConfirmed => ~confirmTransaction_require(e.seller, t)
                         /\ e.sellerConfirmed => ~confirmTransaction_require(e.buyer, t)
                         /\ ~autoReleaseEscrow_require(t)
                         /\ \A sender \in Users : ~resolveDispute_require(sender, t, TRUE)
                   /\ buyerFails
                      => \A sender \in Users : ~resolveDispute_require(sender, t, FALSE)
          /\ OWNER \in rejecting => \A sender \in Users : ~withdrawFees_require(sender))
    /\ [][\A t \in Tokens :
             (~escrowTransactions[t].completed /\ escrowTransactions'[t].completed)
             => \E payee \in {escrowTransactions[t].seller, escrowTransactions[t].buyer} :
                   /\ payee \notin rejecting
                   /\ balance'[payee] > balance[payee]
                   /\ balance'[MARKET] >= 0]_vars

\* the seller does not accept ether, the escrow is funded and past its
\* deadline: autoRelease would pay the seller
C18_Witness ==
    \E t \in Tokens :
        /\ escrowTransactions[t].price > 0
        /\ ~escrowTransactions[t].completed
        /\ ~escrowTransactions[t].disputed
        /\ escrowTransactions[t].seller \in rejecting
        /\ escrowTransactions[t].buyerConfirmed
        /\ now >= escrowTransactions[t].startTime + CONFIRMATION_PERIOD
        /\ balance[MARKET] >= escrowTransactions[t].price

\* C19: while a payout is under way (the ether has been sent, the escrow is
\* not yet completed) the reentrancy guard is set and a call by the receiver
\* of listTicket, unlistTicket, purchaseTicket, confirmTransaction,
\* autoReleaseEscrow, raiseDispute or resolveDispute is rejected; no ether
\* leaves the engine before the call under way has finished.
C19_NestedCallsRejected ==
    /\ [](pending # NoCall
          => LET p == pending.payee
             IN  /\ _status = ENTERED
                 /\ ~escrowTransactions[pending.tokenId].completed
                 /\ \A t \in Tokens :
                       /\ \A price \in ListPrices : ~listTicket_require(p, t, price)
                       /\ ~unlistTicket_require(p, t)
                       /\ \A value \in Payments : ~purchaseTicket_require(p, t, value)
                       /\ ~confirmTransaction_require(p, t)
                       /\ ~autoReleaseEscrow_require(t)
                       /\ ~raiseDispute_require(p, t)
                       /\ \A sellerWins \in BOOLEAN :
                             ~resolveDispute_require(p, t, sellerWins))
    /\ [][pending # NoCall
          => /\ balance' = balance
             /\ pending' = NoCall
             /\ escrowTransactions'[pending.tokenId].completed]_vars

\* the seller has been paid by the completing confirm, which has not returned
C19_Witness ==
    /\ pending.op = "confirmTransaction"
    /\ pending.payee = escrowTransactions[pending.tokenId].seller
    /\ _status = ENTERED
    /\ escrowTransactions[pending.tokenId].sellerConfirmed
    /\ escrowTransactions[pending.tokenId].buyerConfirmed
    /\ ~escrowTransactions[pending.tokenId].completed
    /\ isLocked[pending.tokenId]
    /\ balance[pending.payee] > InitBalance

\* C21: listTicket is accepted only from the current owner, with a price
\* above 0, for an asset without active listing whose status is Verified or
\* Unlocked; a committed listTicket leaves the listing active with the
\* caller as seller and appends the asset id to the listed index.
C21_ListOnlyByOwnerOfSellable ==
    /\ [](\A sender \in Users, t \in Tokens, price \in ListPrices :
             listTicket_require(sender, t, price)
             => /\ owners[t] = sender
                /\ price > 0
                /\ ~listings[t].active
                /\ ticketInfo[t].status \in {VERIFIED, UNLOCKED})
    /\ [][\A t \in Tokens :
             Committed("listTicket", t)
             => /\ owners[t] = last'.caller
                /\ ticketInfo[t].status \notin {PENDING, LOCKED, DISPUTED}
                /\ ~listings[t].active
                /\ listings'[t] = [seller |-> last'.caller, price |-> last'.amount,
                                   active |-> TRUE]
                /\ last'.amount > 0
                /\ listedTokenIds' = Append(listedTokenIds, t)]_vars

\* an Unlocked asset listed again by its owner
C21_Witness ==
    \E t \in Tokens :
        /\ last.op = "listTicket"
        /\ last.tokenId = t
        /\ listings[t].active
        /\ listings[t].seller = last.caller
        /\ ticketInfo[t].status = UNLOCKED
        /\ InArray(listedTokenIds, t)

\* C22: unlistTicket is accepted only from the seller of an active listing
\* of an asset without open escrow; a committed unlistTicket makes that
\* listing inactive, takes the asset id out of the listed index and changes
\* nothing else.
C22_UnlistFrame ==
    /\ [](\A sender \in Users, t \in Tokens :
             unlistTicket_require(sender, t)
             => /\ listings[t].seller = sender
                /\ listings[t].active
                /\ ~(escrowTransactions[t].price > 0 /\ ~escrowTransactions[t].completed))
    /\ [][\A t \in Tokens :
             Committed("unlistTicket", t)
             => /\ listings[t].active
                /\ listings[t].seller = last'.caller
                /\ listings' = [listings EXCEPT ![t].active = FALSE]
                /\ ~InArray(listedTokenIds', t)
                /\ Len(listedTokenIds') = Len(listedTokenIds) - 1
                /\ \A u \in Tokens \ {t} :
                      Occurrences(listedTokenIds', u) = Occurrences(listedTokenIds, u)
                /\ UNCHANGED <<nftVars, marketplaceFee, escrowTransactions, admins,
                               escrowTokenIds, paused, balance, now>>]_vars

C22_Witness ==
    \E t \in Tokens :
        /\ last.op = "unlistTicket"
        /\ last.tokenId = t
        /\ ~listings[t].active
        /\ listings[t].seller = last.caller
        /\ listedTokenIds = <<>>

\* C23: raiseDispute is accepted only from the seller or the buyer of an
\* open escrow that is not disputed; a committed raiseDispute sets disputed,
\* stores the reason and sets the status Disputed, and moves no funds and no
\* asset; on a disputed escrow raiseDispute is rejected.
C23_RaiseDispute ==
    /\ [](\A sender \in Users, t \in Tokens :
             LET e == escrowTransactions[t]
             IN  /\ raiseDispute_require(sender, t)
                    => /\ sender \in {e.seller, e.buyer}
                       /\ e.price > 0 /\ ~e.completed /\ ~e.disputed
                 /\ e.disputed => ~raiseDispute_require(sender, t))
    /\ [][\A t \in Tokens :
             Committed("raiseDispute", t)
             => LET e == escrowTransactions[t]
                IN  /\ last'.caller \in {e.seller, e.buyer}
                    /\ ~e.disputed
                    /\ escrowTransactions'[t].disputed
                    /\ escrowTransactions'[t].disputeReason \in Reasons
                    /\ escrowTransactions'[t] =
                          [e EXCEPT !.disputed = TRUE,
                                    !.disputeReason = escrowTransactions'[t].disputeReason]
                    /\ ticketInfo'[t].status = DISPUTED
                    /\ balance' = balance
                    /\ owners' = owners
                    /\ isLocked' = isLocked]_vars

\* the seller has raised a dispute after the buyer confirmed
C23_Witness ==
    \E t \in Tokens :
        /\ last.op = "raiseDispute"
        /\ last.tokenId = t
        /\ last.caller = escrowTransactions[t].seller
        /\ escrowTransactions[t].disputed
        /\ escrowTransactions[t].disputeReason = "item not received"
        /\ escrowTransactions[t].buyerConfirmed
        /\ balance[MARKET] = escrowTransactions[t].price

\* C30: whenever a listing is active its seller is the owner of the listed
\* asset, so a purchase of it with exact payment by another account is not
\* rejected for the seller not holding the asset.
C30_ActiveListingSellerOwns ==
    \A t \in Tokens :
        listings[t].active
        => /\ listings[t].seller = owners[t]
           /\ \A sender \in Users \ {listings[t].seller} :
                 _transfer_require(listings[t].seller, sender, t)

\* C26: in every state at most one identity passes the registry's
\* onlyMarketplace check.
C26_SingleMarketplace ==
    \A a \in Accounts, b \in Accounts :
        (onlyMarketplace(a) /\ onlyMarketplace(b)) => a = b

\* C27: addAdmin, removeAdmin and authorizeMarketplace of the registry are
\* rejected for every caller but the owner, admins included; every recorded
\* admin passes verifyTicket's caller check; a committed addAdmin(a) records
\* a, a committed removeAdmin(a) leaves a not recorded.
C27_RegistryAdminOwnerOnly ==
    /\ [](/\ \A sender \in Accounts \ {OWNER} : ~nftOnlyOwner(sender)
          /\ \A a \in nftAdmins, t \in Tokens :
                (_exists(t) /\ ticketInfo[t].status = PENDING)
                => verifyTicket_require(a, t))
    /\ [][(last'.op \in {"addAdmin", "removeAdmin", "authorizeMarketplace"}
           /\ vars' # vars)
          => /\ last'.caller = OWNER
             /\ last'.op = "addAdmin"
                => /\ nftAdmins' = nftAdmins \cup {last'.target}
                   /\ UNCHANGED authorizedMarketplace
             /\ last'.op = "removeAdmin"
                => /\ nftAdmins' = nftAdmins \ {last'.target}
                   /\ last'.target \notin nftAdmins'
                   /\ UNCHANGED authorizedMarketplace
             /\ last'.op = "authorizeMarketplace"
                => /\ authorizedMarketplace' =
                         authorizedMarketplace \cup {last'.target}
                   /\ UNCHANGED nftAdmins]_vars

\* alice has been added while a ticket waits for verification
C27_Witness ==
    \E t \in Tokens :
        /\ last.op = "addAdmin"
        /\ last.target = "alice"
        /\ "alice" \in nftAdmins
        /\ _exists(t)
        /\ ticketInfo[t].status = PENDING

\* C24: resolveDispute is accepted only from a marketplace admin or the
\* owner, and only on an escrow that is disputed and not completed: never
\* on an escrow that was not disputed, never a second time.
C24_ResolveOnlyAdminOnDisputed ==
    /\ [](\A sender \in Users, t \in Tokens, sellerWins \in BOOLEAN :
             LET e == escrowTransactions[t]
             IN  /\ (sender \notin admins /\ sender # OWNER)
                    => ~resolveDispute_require(sender, t, sellerWins)
                 /\ (~e.disputed \/ e.completed)
                    => ~resolveDispute_require(sender, t, sellerWins))
    /\ [][\A t \in Tokens :
             Committed("resolveDispute", t)
             => /\ last'.caller \in admins \cup {OWNER}
                /\ escrowTransactions[t].disputed
                /\ ~escrowTransactions[t].completed
                /\ escrowTransactions'[t].completed]_vars

\* an added admin, not the owner, has resolved a dispute
C24_Witness ==
    \E t \in Tokens :
        /\ last.op = "resolveDispute"
        /\ last.tokenId = t
        /\ last.caller # OWNER
        /\ last.caller \in admins
        /\ escrowTransactions[t].disputed
        /\ escrowTransactions[t].completed

\* C25: an identity passes the admin check of the registry's verifyTicket
\* if and only if it passes the admin check of the marketplace's
\* resolveDispute.
C25_OneAdminDirectory ==
    \A a \in Accounts : nftOnlyAdmin(a) <=> onlyAdmin(a)

\* C28: while the registry is paused mintTicket, transferFrom,
\* marketplaceTransfer, burn and purchaseTicket are rejected and no owner
\* changes; when it is not paused mintTicket, the owner's transferFrom of an
\* unlocked ticket and the purchase of a Verified listed ticket held by its
\* seller are accepted; pause and unpause are accepted from the owner only.
C28_RegistryPause ==
    /\ [](/\ nftPaused
             => /\ \A to \in Users : ~mintTicket_require(to)
                /\ \A sender \in Accounts, from \in Users, to \in Users, t \in Tokens :
                      /\ ~transferFrom_require(sender, from, to, t)
                      /\ ~marketplaceTransfer_require(sender, from, to, t)
                      /\ ~burn_require(sender, t)
                /\ \A sender \in Users, t \in Tokens, value \in Payments :
                      ~purchaseTicket_require(sender, t, value)
          /\ ~nftPaused
             => /\ \A to \in Users : mintTicket_require(to)
                /\ \A t \in Tokens, to \in Users :
                      (_exists(t) /\ ~isLocked[t])
                      => transferFrom_require(owners[t], owners[t], to, t)
                /\ \A t \in Tokens, sender \in Users :
                      (/\ ~paused
                       /\ listings[t].active
                       /\ listings[t].seller = owners[t]
                       /\ ticketInfo[t].status = VERIFIED
                       /\ sender # listings[t].seller)
                      => purchaseTicket_require(sender, t, listings[t].price)
          /\ \A sender \in Accounts \ {OWNER} : ~nftOnlyOwner(sender))
    /\ [][/\ nftPaused => owners' = owners
          /\ (last'.op \in {"pause", "unpause"} /\ vars' # vars)
             => /\ last'.caller = OWNER
                /\ nftPaused' = (last'.op = "pause")]_vars

\* the registry has been paused while a listing waits for its buyer
C28_Witness ==
    \E t \in Tokens :
        /\ last.op = "pause"
        /\ nftPaused
        /\ ~paused
        /\ listings[t].active
        /\ listings[t].seller = owners[t]
        /\ ticketInfo[t].status = VERIFIED

\* C29: a committed purchase emits Locked, Purchased and EscrowCreated once
\* each; a committed confirm emits Confirmed once, and EscrowCompleted and
\* Unlocked once when it completes the escrow and not otherwise; a
\* committed resolveDispute emits DisputeResolved once; a committed addAdmin
\* or removeAdmin, of the registry or of the marketplace, emits AdminAdded
\* or AdminRemoved once.
C29_EventsOncePerOperation ==
    [][vars' # vars
       => /\ last'.op = "purchaseTicket"
             => /\ Occurrences(emitted', "TicketLocked") = 1
                /\ Occurrences(emitted', "TicketPurchased") = 1
                /\ Occurrences(emitted', "EscrowCreated") = 1
          /\ last'.op = "confirmTransaction"
             => LET done == IF escrowTransactions'[last'.tokenId].completed
                            THEN 1 ELSE 0
                IN  /\ Occurrences(emitted', "TransactionConfirmed") = 1
                    /\ Occurrences(emitted', "EscrowCompleted") = done
                    /\ Occurrences(emitted', "TicketUnlocked") = done
          /\ last'.op = "resolveDispute"
             => Occurrences(emitted', "DisputeResolved") = 1
          /\ last'.op \in {"addAdmin", "marketplace.addAdmin"}
             => Occurrences(emitted', "AdminAdded") = 1
          /\ last'.op \in {"removeAdmin", "marketplace.removeAdmin"}
             => Occurrences(emitted', "AdminRemoved") = 1
      ]_vars

\* C31: while an escrow is open the escrowed ticket exists and is owned by
\* the buyer of the escrow: nobody but the marketplace can change or remove
\* the owner of a locked ticket, so unlockTicket stays possible.
C31_EscrowedTicketOwnedByBuyer ==
    \A t \in Tokens :
        _isInEscrow(t)
        => /\ _exists(t)
           /\ owners[t] = escrowTransactions[t].buyer
           /\ unlockTicket_require(MARKET, t)

\* C32: with the marketplace contract the only authorized marketplace, a
\* ticket's lock flag is set exactly when the ticket has an open escrow; it
\* stays set all through a dispute, and it is cleared in the very step that
\* marks the escrow completed.
C32_LockedIffOpenEscrow ==
    /\ [](\A t \in Tokens :
            /\ isLocked[t] <=> _isInEscrow(t)
            /\ (escrowTransactions[t].disputed /\ ~escrowTransactions[t].completed)
                  => isLocked[t])
    /\ [][\A t \in Tokens :
            (~escrowTransactions[t].completed /\ escrowTransactions'[t].completed)
               <=> (isLocked[t] /\ ~isLocked'[t])
         ]_vars

\* a dispute was resolved: the escrow is completed and the ticket unlocked
C32_Witness ==
    \E t \in Tokens :
        /\ authorizedMarketplace = {MARKET}
        /\ last.op = "resolveDispute"
        /\ last.tokenId = t
        /\ escrowTransactions[t].disputed
        /\ escrowTransactions[t].completed
        /\ ~isLocked[t]

C34_NeverListedAndEscrowed ==
    /\ [](\A t \in Tokens :
            /\ ~(listings[t].active /\ _isInEscrow(t))
            /\ ticketInfo[t].status \in {LOCKED, DISPUTED}
                  => \A sender \in Users, price \in ListPrices :
                         ~listTicket_require(sender, t, price))
    /\ [][\A t \in Tokens :
            Committed("purchaseTicket", t)
               => /\ listings[t].active
                  /\ ~listings'[t].active
                  /\ ~_isInEscrow(t)
                  /\ escrowTransactions'[t].price > 0
                  /\ ~escrowTransactions'[t].completed
         ]_vars

\* a ticket was purchased: escrow open, listing inactive, and the buyer who
\* now holds it is the one whose listTicket is rejected
C34_Witness ==
    \E t \in Tokens :
        /\ last.op = "purchaseTicket"
        /\ last.tokenId = t
        /\ _isInEscrow(t)
        /\ ~listings[t].active
        /\ owners[t] = escrowTransactions[t].buyer
        /\ listTicket_require_anyStatus(owners[t], t, 39)

C36_IndexesExact ==
    \A t \in DOMAIN listings :
        /\ Occurrences(listedTokenIds, t) = (IF listings[t].active THEN 1 ELSE 0)
        /\ Occurrences(escrowTokenIds, t) = (IF _isInEscrow(t) THEN 1 ELSE 0)
        /\ Occurrences(getActiveListings, t) = (IF listings[t].active THEN 1 ELSE 0)
        /\ Occurrences(getActiveEscrows, t) = (IF _isInEscrow(t) THEN 1 ELSE 0)

\* an id was taken out of a listed array of three by a purchase, leaving two
\* listed ids and one id in escrow
C36_Witness ==
    /\ last.op = "purchaseTicket"
    /\ Len(listedTokenIds) = 2
    /\ Len(getActiveListings) = 2
    /\ escrowTokenIds = <<last.tokenId>>
    /\ getActiveEscrows = <<last.tokenId>>
    /\ ~InArray(listedTokenIds, last.tokenId)

\* C37: the fee of an escrow is taken at the rate in force when the escrow is
\* settled, not at the rate of its purchase.  Where the fee only changes
\* between purchase and settlement, every purchase is made at the initial
\* rate, and every payout to the seller is price - floor(price * rate / 10000)
\* at the rate of the paying step, the rest staying in the marketplace.
C37_FeeAtSettlement ==
    /\ [](\A t \in Tokens : ~(escrowTransactions[t].price > 0)
                               => marketplaceFee = InitialFee)
    /\ [][\A t \in Tokens :
            LET e == escrowTransactions[t]
                cut == (e.price * marketplaceFee) \div FeeDenominator
            IN  /\ Committed("purchaseTicket", t) => marketplaceFee = InitialFee
                /\ (/\ e.price > 0 /\ ~e.completed
                    /\ escrowTransactions'[t].completed
                    /\ ~(last'.op = "resolveDispute" /\ ~last'.flag))
                      => /\ marketplaceFee' = marketplaceFee
                         /\ balance'[e.seller] = balance[e.seller] + (e.price - cut)
                         /\ balance'[MARKET] = balance[MARKET] - (e.price - cut)
         ]_vars

\* bought at the initial rate, settled by the second confirmation after the
\* owner raised the rate: the marketplace keeps the fee at the new rate
C37_Witness ==
    \E t \in Tokens :
        /\ last.op = "confirmTransaction"
        /\ last.tokenId = t
        /\ escrowTransactions[t].completed
        /\ escrowTransactions[t].price = 1000
        /\ marketplaceFee = 1000
        /\ marketplaceFee # InitialFee
        /\ balance[MARKET] = 100
        /\ balance[escrowTransactions[t].seller] = InitBalance + 900

\* C38: a paused marketplace rejects listTicket and purchaseTicket and
\* nothing else: unlistTicket, confirmTransaction, autoReleaseEscrow,
\* raiseDispute and resolveDispute are accepted exactly under the requires
\* they have when the marketplace is not paused, so an escrow opened before
\* the pause is settled as without it.
C38_PauseBlocksListAndPurchaseOnly ==
    /\ [](paused =>
            \A t \in Tokens, sender \in Users :
                LET e == escrowTransactions[t]
                IN  /\ \A price \in ListPrices : ~listTicket_require(sender, t, price)
                    /\ \A value \in Payments : ~purchaseTicket_require(sender, t, value)
                    /\ unlistTicket_require(sender, t)
                          <=> /\ validTokenId(t)
                              /\ listings[t].seller = sender
                              /\ listings[t].active
                              /\ ~_isInEscrow(t)
                    /\ confirmTransaction_require(sender, t)
                          <=> /\ validTokenId(t)
                              /\ confirmTransaction_check(sender, t)
                              /\ bothConfirmed(confirmed(sender, e))
                                    => _completeEscrow_require(t)
                    /\ autoReleaseEscrow_require(t)
                          <=> /\ validTokenId(t)
                              /\ autoReleaseEscrow_check(t)
                              /\ _completeEscrow_require(t)
                    /\ raiseDispute_require(sender, t)
                          <=> /\ validTokenId(t)
                              /\ raiseDispute_check(sender, t)
                              /\ markAsDisputed_require(MARKET, t)
                    /\ \A sellerWins \in BOOLEAN :
                          resolveDispute_require(sender, t, sellerWins)
                             <=> /\ onlyAdmin(sender)
                                 /\ validTokenId(t)
                                 /\ resolveDispute_check(t)
                                 /\ unlockTicket_require(MARKET, t)
                                 /\ IF sellerWins
                                    THEN _releaseFundsToSeller_require(t)
                                    ELSE /\ _refundBuyer_require(t)
                                         /\ marketplaceTransfer_require(
                                                MARKET, e.buyer, e.seller, t))
    /\ [][(paused /\ vars' # vars)
             => last'.op \notin {"listTicket", "purchaseTicket"}]_vars

\* the second confirmation of an escrow arrived while the marketplace was
\* paused and settled it
C38_Witness ==
    \E t \in Tokens :
        /\ paused
        /\ last.op = "confirmTransaction"
        /\ last.tokenId = t
        /\ escrowTransactions[t].completed
        /\ ~isLocked[t]

\* C39: raiseDispute by the seller or the buyer is accepted whenever the
\* escrow is open and not disputed, whatever the time and whether or not the
\* caller has confirmed; past the deadline autoReleaseEscrow and raiseDispute
\* exclude each other: after either has committed the other is rejected.
C39_DisputeAnyTimeWhileOpen ==
    /\ [](\A t \in Tokens, sender \in Users :
            LET e == escrowTransactions[t]
            IN  (/\ e.price > 0
                 /\ ~e.completed
                 /\ ~e.disputed
                 /\ sender \in {e.buyer, e.seller})
                   => raiseDispute_require(sender, t))
    /\ [][\A t \in Tokens, sender \in Users :
            /\ Committed("autoReleaseEscrow", t)
                  => ~raiseDispute_require(sender, t)'
            /\ Committed("raiseDispute", t)
                  => ~autoReleaseEscrow_require(t)'
         ]_vars

====
